---- MODULE Spec2Model ----
(***************************************************************************)
(* redbql: typed dependency injection of table handles into queries        *)
(* (run against a read transaction) and statements (executed against a     *)
(* write transaction) of a redb store.  src/lib.rs is the whole crate.      *)
(*                                                                         *)
(* The store engine is the crate's environment.  It is modelled by what    *)
(* the crate's calls into it do: open_table on a write transaction opens   *)
(* the table and creates it when absent, and refuses a table that is       *)
(* already open in that transaction; open_table on a read transaction      *)
(* fails with TableDoesNotExist on an absent table; a read transaction     *)
(* reads the snapshot committed when it began; commit publishes a write    *)
(* transaction's pending store, dropping it discards the pending store.    *)
(* Any open_table may also fail with a storage (I/O) error, chosen by the  *)
(* environment.                                                            *)
(***************************************************************************)
EXTENDS Naturals, Sequences, FiniteSets, TLC

\* ------------------------------------------------------------------ bounds

\* Number of read transactions that may be open at once.
MaxReaders == 1
\* Number of table mutations one statement body performs at most.
MaxMuts == 1

\* ------------------------------------------------------------- the tables

\* table! { Names, NamesMut, NAMES, &'static str, &'static str }
NAMES == "NAMES"
Tables == {NAMES}
Keys == {"james", "bob"}
Values == {"smith", "jones"}
None == "None"
Option == Values \cup {None}

\* A parameter type of a callable: the raw transaction, or the handle of a
\* declared table (Names / NamesMut, depending on the transaction's kind).
Tx == "Tx"
ArgTypes == {Tx} \cup Tables

NoRows == [k \in Keys |-> None]
NoTable == [exists |-> FALSE, rows |-> NoRows]
TableState == {NoTable} \cup [exists : {TRUE}, rows : [Keys -> Option]]
Store == [Tables -> TableState]
EmptyStore == [t \in Tables |-> NoTable]

\* ---------------------------------------------------------------- results

Ok(v) == [tag |-> "Ok", val |-> v]
Err(e) == [tag |-> "Err", val |-> e]
IsOk(r) == r.tag = "Ok"
IsErr(r) == r.tag = "Err"

\* redb's errors, as far as the crate's calls raise them.
TableDoesNotExist == <<"TableDoesNotExist">>
TableAlreadyOpen == <<"TableAlreadyOpen">>
StorageError == <<"Storage">>
CommitError == <<"Commit">>
TransactionError == <<"Transaction">>
\* The error a callable's body returns by itself.
BodyError == <<"Body">>

\* E: From<redb::Error>: the `?` of run/execute converts the storage error
\* into the callable's error type.
From(e) == <<"From">> \o e

\* One step of a call, as it happened.
Event(step, idx, ok) == [step |-> step, idx |-> idx, ok |-> ok]
Called == Event("call", 0, TRUE)

\* ------------------------------------------------------------- callables

\* What a callable's body does with the handles it is given: up to MaxMuts
\* inserts through its table handle, then possibly one lookup, then
\* it returns Ok(..) or its own error.
Mutation == [op : {"insert"}, key : Keys, value : Values]
MutSeqs == UNION {[1..n -> Mutation] : n \in 0..MaxMuts}
NoGet == "-"
Bodies == [muts : MutSeqs, get : Keys \cup {NoGet}, ret : {"ok", "err"}]
UsesTable(F) == F.muts # <<>> \/ F.get # NoGet

\* Bodies a query may have: a read handle cannot mutate.
QueryBodies == {F \in Bodies : F.muts = <<>> /\ (F.ret = "err" => F.get = NoGet)}
\* Bodies a statement may have (as tests::initialize: mutations only).
StatementBodies == {F \in Bodies : F.get = NoGet}

\* Parameter lists of arity 1 and 2.
ArgLists == [1..1 -> ArgTypes] \cup [1..2 -> ArgTypes]
HasTable(args) == \E i \in 1..Len(args) : args[i] \in Tables
\* The table handle the body works through: its first table parameter.
TableOf(handles) ==
  handles[CHOOSE i \in 1..Len(handles) :
            /\ handles[i] \in Tables
            /\ \A j \in 1..(i - 1) : handles[j] \notin Tables]

\* Table::insert: the row is set (the previous value is returned).
ApplyMutation(m, table) ==
  [exists |-> table.exists,
   rows |-> [table.rows EXCEPT ![m.key] = m.value]]

RECURSIVE ApplyMuts(_, _)
ApplyMuts(muts, table) ==
  IF muts = <<>> THEN [table |-> table, olds |-> <<>>]
  ELSE LET rest == ApplyMuts(Tail(muts), ApplyMutation(Head(muts), table))
       IN [table |-> rest.table,
           olds |-> <<table.rows[Head(muts).key]>> \o rest.olds]

\* self(t0) / self(t0, t1): the body runs with the resolved handles.
Call(F, handles, store) ==
  IF ~UsesTable(F)
  THEN [res |-> IF F.ret = "err" THEN Err(BodyError) ELSE Ok(<<>>),
        store |-> store]
  ELSE LET t == TableOf(handles)
           done == ApplyMuts(F.muts, store[t])
           got == IF F.get = NoGet THEN <<>> ELSE <<done.table.rows[F.get]>>
       IN [res |-> IF F.ret = "err" THEN Err(BodyError)
                   ELSE Ok(done.olds \o got),
           store |-> [store EXCEPT ![t] = done.table]]

\* ------------------------------------------------------------- resolvers

\* impl QueryArg for &ReadTransaction: Ok(tx).
ReadTransaction_from_tx(snap) == [res |-> Ok(<<Tx>>), store |-> snap]

\* ReadTransaction::open_table, as called by the read handle's from_tx.
ReadTransaction_open_table(name, snap, fault) ==
  IF fault THEN [res |-> Err(StorageError), store |-> snap]
  ELSE IF ~snap[name].exists
  THEN [res |-> Err(TableDoesNotExist), store |-> snap]
  ELSE [res |-> Ok(<<name>>), store |-> snap]

\* Faulty variant: the read handle opens its table the way the write handle
\* does, creating it when absent.
Names_from_tx_Creating(name, snap, fault) ==
  IF fault THEN [res |-> Err(StorageError), store |-> snap]
  ELSE [res |-> Ok(<<name>>), store |-> [snap EXCEPT ![name].exists = TRUE]]

\* table!: impl QueryArg for $ro: Ok(Self(tx.open_table($name)?)).
Names_from_tx(name, snap, fault) ==
  ReadTransaction_open_table(name, snap, fault)

\* T::from_tx(tx) for a query parameter of type T.
QueryArg_from_tx(T, snap, fault) ==
  IF T = Tx THEN ReadTransaction_from_tx(snap)
  ELSE Names_from_tx(T, snap, fault)

\* impl StatementArg for &WriteTransaction: Ok(tx).
WriteTransaction_from_tx(store, opened) ==
  [res |-> Ok(<<Tx>>), store |-> store, opened |-> opened]

\* WriteTransaction::open_table, as called by the write handle's from_tx:
\* creates the table when absent; `opened` are the tables whose handle is
\* alive in the transaction.
WriteTransaction_open_table(name, store, opened, fault) ==
  IF fault
  THEN [res |-> Err(StorageError), store |-> store, opened |-> opened]
  ELSE IF name \in opened
  THEN [res |-> Err(TableAlreadyOpen), store |-> store, opened |-> opened]
  ELSE [res |-> Ok(<<name>>),
        store |-> [store EXCEPT ![name].exists = TRUE],
        opened |-> opened \cup {name}]

\* Faulty variant: the write handle opens its table the way the read handle
\* does, failing on an absent table.
NamesMut_from_tx_NotCreating(name, store, opened, fault) ==
  IF fault
  THEN [res |-> Err(StorageError), store |-> store, opened |-> opened]
  ELSE IF name \in opened
  THEN [res |-> Err(TableAlreadyOpen), store |-> store, opened |-> opened]
  ELSE IF ~store[name].exists
  THEN [res |-> Err(TableDoesNotExist), store |-> store, opened |-> opened]
  ELSE [res |-> Ok(<<name>>), store |-> store,
        opened |-> opened \cup {name}]

\* table!: impl StatementArg for $rw: Ok(Self(tx.open_table($name)?)).
NamesMut_from_tx(name, store, opened, fault) ==
  WriteTransaction_open_table(name, store, opened, fault)

\* T::from_tx(tx) for a statement parameter of type T.
StatementArg_from_tx(T, store, opened, fault) ==
  IF T = Tx THEN WriteTransaction_from_tx(store, opened)
  ELSE NamesMut_from_tx(T, store, opened, fault)

\* -------------------------------------------------------------- dispatch

FromTx(idx, ok) == Event("from_tx", idx, ok)

\* Faulty variant: a failed resolution is swallowed and a default returned.
Query_run_1_Swallowing(F, T0, snap, fault) ==
  LET t0 == QueryArg_from_tx(T0, snap, fault = 1)
  IN IF IsErr(t0.res)
     THEN [log |-> <<FromTx(0, FALSE)>>,
           result |-> Ok(<<>>),
           store |-> t0.store]
     ELSE LET out == Call(F, t0.res.val, t0.store)
          IN [log |-> <<FromTx(0, TRUE), Called>>,
              result |-> out.res,
              store |-> out.store]

\* impl Query<(T0,)> for F: run.
Query_run_1(F, T0, snap, fault) ==
  LET t0 == QueryArg_from_tx(T0, snap, fault = 1)
  IN IF IsErr(t0.res)
     THEN [log |-> <<FromTx(0, FALSE)>>,
           result |-> Err(From(t0.res.val)),
           store |-> t0.store]
     ELSE LET out == Call(F, t0.res.val, t0.store)
          IN [log |-> <<FromTx(0, TRUE), Called>>,
              result |-> out.res,
              store |-> out.store]

\* impl Query<(T0, T1)> for F: run.
Query_run_2(F, T0, T1, snap, fault) ==
  LET t0 == QueryArg_from_tx(T0, snap, fault = 1)
  IN IF IsErr(t0.res)
     THEN [log |-> <<FromTx(0, FALSE)>>,
           result |-> Err(From(t0.res.val)),
           store |-> t0.store]
     ELSE LET t1 == QueryArg_from_tx(T1, t0.store, fault = 2)
          IN IF IsErr(t1.res)
             THEN [log |-> <<FromTx(0, TRUE), FromTx(1, FALSE)>>,
                   result |-> Err(From(t1.res.val)),
                   store |-> t1.store]
             ELSE LET out == Call(F, t0.res.val \o t1.res.val, t1.store)
                  IN [log |-> <<FromTx(0, TRUE), FromTx(1, TRUE), Called>>,
                      result |-> out.res,
                      store |-> out.store]

\* Faulty variant: when the body returns an error its mutations are undone.
Statement_execute_1_RollingBack(F, T0, store, fault) ==
  LET t0 == StatementArg_from_tx(T0, store, {}, fault = 1)
  IN IF IsErr(t0.res)
     THEN [log |-> <<FromTx(0, FALSE)>>,
           result |-> Err(From(t0.res.val)),
           store |-> t0.store]
     ELSE LET out == Call(F, t0.res.val, t0.store)
          IN [log |-> <<FromTx(0, TRUE), Called>>,
              result |-> out.res,
              store |-> IF IsErr(out.res) THEN t0.store ELSE out.store]

\* impl Statement<(T0,)> for F: execute.
Statement_execute_1(F, T0, store, fault) ==
  LET t0 == StatementArg_from_tx(T0, store, {}, fault = 1)
  IN IF IsErr(t0.res)
     THEN [log |-> <<FromTx(0, FALSE)>>,
           result |-> Err(From(t0.res.val)),
           store |-> t0.store]
     ELSE LET out == Call(F, t0.res.val, t0.store)
          IN [log |-> <<FromTx(0, TRUE), Called>>,
              result |-> out.res,
              store |-> out.store]

\* Faulty variant: both parameters are resolved before either result is
\* examined.
Statement_execute_2_Eager(F, T0, T1, store, fault) ==
  LET t0 == StatementArg_from_tx(T0, store, {}, fault = 1)
      t1 == StatementArg_from_tx(T1, t0.store, t0.opened, fault = 2)
  IN IF IsErr(t0.res)
     THEN [log |-> <<FromTx(0, FALSE), FromTx(1, IsOk(t1.res))>>,
           result |-> Err(From(t0.res.val)),
           store |-> t1.store]
     ELSE IF IsErr(t1.res)
     THEN [log |-> <<FromTx(0, TRUE), FromTx(1, FALSE)>>,
           result |-> Err(From(t1.res.val)),
           store |-> t1.store]
     ELSE LET out == Call(F, t0.res.val \o t1.res.val, t1.store)
          IN [log |-> <<FromTx(0, TRUE), FromTx(1, TRUE), Called>>,
              result |-> out.res,
              store |-> out.store]

\* Faulty variant: the body's error is passed through the conversion of
\* storage errors instead of being returned as it is.
Statement_execute_2_Converting(F, T0, T1, store, fault) ==
  LET t0 == StatementArg_from_tx(T0, store, {}, fault = 1)
  IN IF IsErr(t0.res)
     THEN [log |-> <<FromTx(0, FALSE)>>,
           result |-> Err(From(t0.res.val)),
           store |-> t0.store]
     ELSE LET t1 == StatementArg_from_tx(T1, t0.store, t0.opened, fault = 2)
          IN IF IsErr(t1.res)
             THEN [log |-> <<FromTx(0, TRUE), FromTx(1, FALSE)>>,
                   result |-> Err(From(t1.res.val)),
                   store |-> t1.store]
             ELSE LET out == Call(F, t0.res.val \o t1.res.val, t1.store)
                  IN [log |-> <<FromTx(0, TRUE), FromTx(1, TRUE), Called>>,
                      result |-> IF IsErr(out.res)
                                 THEN Err(From(out.res.val)) ELSE out.res,
                      store |-> out.store]

\* Faulty variant: when the second resolution fails, what the first one did
\* to the transaction is undone.
Statement_execute_2_Undoing(F, T0, T1, store, fault) ==
  LET t0 == StatementArg_from_tx(T0, store, {}, fault = 1)
  IN IF IsErr(t0.res)
     THEN [log |-> <<FromTx(0, FALSE)>>,
           result |-> Err(From(t0.res.val)),
           store |-> t0.store]
     ELSE LET t1 == StatementArg_from_tx(T1, t0.store, t0.opened, fault = 2)
          IN IF IsErr(t1.res)
             THEN [log |-> <<FromTx(0, TRUE), FromTx(1, FALSE)>>,
                   result |-> Err(From(t1.res.val)),
                   store |-> store]
             ELSE LET out == Call(F, t0.res.val \o t1.res.val, t1.store)
                  IN [log |-> <<FromTx(0, TRUE), FromTx(1, TRUE), Called>>,
                      result |-> out.res,
                      store |-> out.store]

\* impl Statement<(T0, T1)> for F: execute.
Statement_execute_2(F, T0, T1, store, fault) ==
  LET t0 == StatementArg_from_tx(T0, store, {}, fault = 1)
  IN IF IsErr(t0.res)
     THEN [log |-> <<FromTx(0, FALSE)>>,
           result |-> Err(From(t0.res.val)),
           store |-> t0.store]
     ELSE LET t1 == StatementArg_from_tx(T1, t0.store, t0.opened, fault = 2)
          IN IF IsErr(t1.res)
             THEN [log |-> <<FromTx(0, TRUE), FromTx(1, FALSE)>>,
                   result |-> Err(From(t1.res.val)),
                   store |-> t1.store]
             ELSE LET out == Call(F, t0.res.val \o t1.res.val, t1.store)
                  IN [log |-> <<FromTx(0, TRUE), FromTx(1, TRUE), Called>>,
                      result |-> out.res,
                      store |-> out.store]

\* Query::run, by the arity of the callable.
Query_run(F, args, snap, fault) ==
  IF Len(args) = 1 THEN Query_run_1(F, args[1], snap, fault)
  ELSE Query_run_2(F, args[1], args[2], snap, fault)

\* Statement::execute, by the arity of the callable.
Statement_execute(F, args, store, fault) ==
  IF Len(args) = 1 THEN Statement_execute_1(F, args[1], store, fault)
  ELSE Statement_execute_2(F, args[1], args[2], store, fault)

\* Faulty variant: the transaction is committed whatever the statement
\* returned.
DatabaseExt_execute_CommitAnyway(F, args, published, fault, beginOk, commitOk) ==
  IF ~beginOk
  THEN [log |-> <<Event("begin_write", 0, FALSE)>>,
        result |-> Err(From(TransactionError)),
        published |-> published]
  ELSE LET out == Statement_execute(F, args, published, fault)
       IN IF ~commitOk
          THEN [log |-> <<Event("begin_write", 0, TRUE)>> \o out.log
                          \o <<Event("commit", 0, FALSE)>>,
                result |-> Err(From(CommitError)),
                published |-> published]
          ELSE [log |-> <<Event("begin_write", 0, TRUE)>> \o out.log
                          \o <<Event("commit", 0, TRUE)>>,
                result |-> out.result,
                published |-> out.store]

\* DatabaseExt::execute (mod ext, compiled out by #[cfg(any())]): begin a
\* write transaction, execute the statement, commit, return the result.
\* `published` is the committed store; beginOk and commitOk are the
\* engine's answers to begin_write and commit.
DatabaseExt_execute(F, args, published, fault, beginOk, commitOk) ==
  IF ~beginOk
  THEN [log |-> <<Event("begin_write", 0, FALSE)>>,
        result |-> Err(From(TransactionError)),
        published |-> published]
  ELSE LET out == Statement_execute(F, args, published, fault)
       IN IF IsErr(out.result)
          THEN [log |-> <<Event("begin_write", 0, TRUE)>> \o out.log,
                result |-> out.result,
                published |-> published]
          ELSE IF ~commitOk
          THEN [log |-> <<Event("begin_write", 0, TRUE)>> \o out.log
                          \o <<Event("commit", 0, FALSE)>>,
                result |-> Err(From(CommitError)),
                published |-> published]
          ELSE [log |-> <<Event("begin_write", 0, TRUE)>> \o out.log
                          \o <<Event("commit", 0, TRUE)>>,
                result |-> out.result,
                published |-> out.store]

\* ----------------------------------------------------------------- state

VARIABLES
  committed,  \* the store as of the last commit
  wtx,        \* the write transaction: open or not, and its pending store
  rtx,        \* the read transactions: open or not, and their snapshot
  last        \* the last operation: what was called and what it returned

vars == <<committed, wtx, rtx, last>>

Readers == 1..MaxReaders
Closed == [open |-> FALSE, store |-> EmptyStore]
Opened(store) == [open |-> TRUE, store |-> store]
NoBody == [muts |-> <<>>, get |-> NoGet, ret |-> "ok"]

Op(op, tx, args, F, fault, log, result) ==
  [op |-> op, tx |-> tx, args |-> args, body |-> F, fault |-> fault,
   log |-> log, result |-> result]
Plain(op, tx, result) == Op(op, tx, <<>>, NoBody, 0, <<>>, result)

\* No call is in progress, no result is pending.
Idle == Plain("idle", 0, Ok(<<>>))

\* The environment's storage fault hits the open_table of parameter `fault`
\* (0: none); the raw transaction is resolved without touching the store.
Faulty(args, fault) ==
  IF fault = 0 THEN TRUE
  ELSE IF fault > Len(args) THEN FALSE
  ELSE args[fault] \in Tables

\* Faulty variant: a commit that reports success publishes nothing.
WriteTransaction_commit_Lost(pending, published, ok) == published

\* WriteTransaction::commit
WriteTransaction_commit(pending, published, ok) ==
  IF ok THEN pending ELSE published

\* Database::create: a fresh database, no table in it.
Init ==
  /\ committed = EmptyStore
  /\ wtx = Closed
  /\ rtx = [r \in Readers |-> Closed]
  /\ last = Idle

\* database.begin_read(): the snapshot is the store as committed now.
BeginRead(r) ==
  /\ last = Idle
  /\ ~rtx[r].open
  /\ rtx' = [rtx EXCEPT ![r] = Opened(committed)]
  /\ UNCHANGED <<committed, wtx, last>>

\* the read transaction goes out of scope
EndRead(r) ==
  /\ last = Idle
  /\ rtx[r].open
  /\ rtx' = [rtx EXCEPT ![r] = Closed]
  /\ UNCHANGED <<committed, wtx, last>>

\* query.run(&tx)
Run(r) ==
  /\ last = Idle
  /\ rtx[r].open
  /\ \E args \in ArgLists, F \in QueryBodies, fault \in 0..2 :
       /\ UsesTable(F) => HasTable(args)
       /\ Faulty(args, fault)
       /\ \E out \in {Query_run(F, args, rtx[r].store, fault)} :
            /\ rtx' = [rtx EXCEPT ![r] = Opened(out.store)]
            /\ last' = Op("run", r, args, F, fault, out.log, out.result)
  /\ UNCHANGED <<committed, wtx>>

\* database.begin_write(): at most one write transaction is open.
BeginWrite ==
  /\ last = Idle
  /\ ~wtx.open
  /\ wtx' = Opened(committed)
  /\ UNCHANGED <<committed, rtx, last>>

\* Faulty variant: execute publishes the transaction's store as it goes.
Execute_Publishing ==
  /\ last = Idle
  /\ wtx.open
  /\ \E args \in ArgLists, F \in StatementBodies, fault \in 0..2 :
       /\ UsesTable(F) => HasTable(args)
       /\ Faulty(args, fault)
       /\ \E out \in {Statement_execute(F, args, wtx.store, fault)} :
            /\ wtx' = Opened(out.store)
            /\ committed' = out.store
            /\ last' = Op("execute", 0, args, F, fault, out.log, out.result)
  /\ UNCHANGED rtx

\* statement.execute(&tx)
Execute ==
  /\ last = Idle
  /\ wtx.open
  /\ \E args \in ArgLists, F \in StatementBodies, fault \in 0..2 :
       /\ UsesTable(F) => HasTable(args)
       /\ Faulty(args, fault)
       /\ \E out \in {Statement_execute(F, args, wtx.store, fault)} :
            /\ wtx' = Opened(out.store)
            /\ last' = Op("execute", 0, args, F, fault, out.log, out.result)
  /\ UNCHANGED <<committed, rtx>>

\* tx.commit(): publishes the pending store, or fails and publishes nothing.
Commit ==
  /\ last = Idle
  /\ wtx.open
  /\ \E ok \in BOOLEAN :
       /\ committed' = WriteTransaction_commit(wtx.store, committed, ok)
       /\ last' = Plain("commit", 0, IF ok THEN Ok(<<>>) ELSE Err(CommitError))
  /\ wtx' = Closed
  /\ UNCHANGED rtx

\* the write transaction is dropped without commit
Abort ==
  /\ last = Idle
  /\ wtx.open
  /\ wtx' = Closed
  /\ UNCHANGED <<committed, rtx, last>>

\* the caller takes the result of the call (unwrap, assert_eq!)
Return ==
  /\ last # Idle
  /\ last' = Idle
  /\ UNCHANGED <<committed, wtx, rtx>>

Next ==
  \/ \E r \in Readers : BeginRead(r)
  \/ \E r \in Readers : EndRead(r)
  \/ \E r \in Readers : Run(r)
  \/ BeginWrite
  \/ Execute
  \/ Commit
  \/ Abort
  \/ Return

Spec == Init /\ [][Next]_vars

\* database.execute(statement): waits for the write transaction to be free.
DbExecute ==
  /\ last = Idle
  /\ ~wtx.open
  /\ \E args \in ArgLists, F \in StatementBodies, fault \in 0..2,
        beginOk \in BOOLEAN, commitOk \in BOOLEAN :
       /\ UsesTable(F) => HasTable(args)
       /\ Faulty(args, fault)
       /\ \E out \in {DatabaseExt_execute(F, args, committed, fault,
                                          beginOk, commitOk)} :
            /\ committed' = out.published
            /\ last' = Op("db_execute", 0, args, F, fault, out.log, out.result)
  /\ UNCHANGED <<wtx, rtx>>

NextExt ==
  \/ Next
  \/ DbExecute

\* The crate with mod ext compiled in.
SpecExt == Init /\ [][NextExt]_vars

TypeOK ==
  /\ committed \in Store
  /\ wtx \in [open : BOOLEAN, store : Store]
  /\ rtx \in [Readers -> [open : BOOLEAN, store : Store]]

\* ------------------------------------------------------------ properties

Rows(store) == store[NAMES].rows
Exists(store) == store[NAMES].exists

\* What the log of a call c says happened.
BodyRan(c) == \E i \in 1..Len(c.log) : c.log[i] = Called
Attempted(c, idx) ==
  \E i \in 1..Len(c.log) : c.log[i].step = "from_tx" /\ c.log[i].idx = idx
FailedAt(c, idx) == \E i \in 1..Len(c.log) : c.log[i] = FromTx(idx, FALSE)
ResolvedAt(c, idx) == \E i \in 1..Len(c.log) : c.log[i] = FromTx(idx, TRUE)

\* The step just taken is this operation.
RunStep == last = Idle /\ last'.op = "run"
ExecuteStep == last = Idle /\ last'.op = "execute"
CommitOkStep == last = Idle /\ last'.op = "commit" /\ IsOk(last'.result)
BeginReadStep(r) == ~rtx[r].open /\ rtx'[r].open

\* The value the mutations leave under key k.
Touched(muts, k) == \E i \in 1..Len(muts) : muts[i].key = k
LastValue(muts, k) ==
  muts[CHOOSE i \in 1..Len(muts) :
         /\ muts[i].key = k
         /\ \A j \in (i + 1)..Len(muts) : muts[j].key # k].value

\* C1. Resolution order: in a two-parameter run or execute, parameter 0 is
\* resolved first; when its resolution fails, parameter 1 is never resolved,
\* the body never runs and no transaction is touched; when the resolution of
\* parameter 1 fails, the body never runs and no row changes.
ResolutionOrder ==
  [][(last = Idle /\ last'.op \in {"run", "execute"} /\ Len(last'.args) = 2)
       => /\ last'.log[1].step = "from_tx" /\ last'.log[1].idx = 0
          /\ FailedAt(last', 0)
               => /\ ~Attempted(last', 1)
                  /\ ~BodyRan(last')
                  /\ IsErr(last'.result)
                  /\ wtx' = wtx /\ rtx' = rtx /\ committed' = committed
          /\ Attempted(last', 1)
               => /\ last'.log[1] = FromTx(0, TRUE)
                  /\ last'.log[2].step = "from_tx" /\ last'.log[2].idx = 1
          /\ FailedAt(last', 1)
               => /\ ~BodyRan(last')
                  /\ IsErr(last'.result)
                  /\ Rows(wtx'.store) = Rows(wtx.store)
                  /\ rtx' = rtx /\ committed' = committed
          /\ BodyRan(last') => ResolvedAt(last', 0) /\ ResolvedAt(last', 1)
    ]_vars

\* A two-parameter statement whose first resolution failed.
ResolutionOrderWitness ==
  /\ last.op = "execute"
  /\ Len(last.args) = 2
  /\ last.log = <<FromTx(0, FALSE)>>

\* C2. Round trip: the rows a statement's body inserts are in the write
\* transaction's store when execute returns; they stay there until the
\* transaction ends; a successful commit publishes exactly that store; what is
\* published changes by no other step; a read transaction begins with the
\* published store and keeps it; and a lookup of k run on it returns the value
\* of k in that store, or absence (as a success) when k has no row.
RoundTrip ==
  [][/\ (ExecuteStep /\ BodyRan(last') /\ IsOk(last'.result))
          => \A k \in Keys :
               Touched(last'.body.muts, k)
                 => Rows(wtx'.store)[k] = LastValue(last'.body.muts, k)
     /\ (wtx.open /\ ~ExecuteStep /\ wtx'.open) => wtx' = wtx
     /\ CommitOkStep => committed' = wtx.store
     /\ ~CommitOkStep => committed' = committed
     /\ \A r \in Readers :
          /\ BeginReadStep(r) => rtx'[r].store = committed
          /\ (rtx[r].open /\ rtx'[r].open) => rtx'[r] = rtx[r]
     /\ (RunStep /\ last'.fault = 0 /\ HasTable(last'.args)
           /\ Exists(rtx[last'.tx].store) /\ last'.body.ret = "ok")
          => /\ BodyRan(last')
             /\ last'.result =
                  Ok(IF last'.body.get = NoGet THEN <<>>
                     ELSE <<Rows(rtx[last'.tx].store)[last'.body.get]>>)
    ]_vars

\* A query has read back a value while another key of the table is absent.
RoundTripWitness ==
  /\ last.op = "run"
  /\ last.body.get # NoGet
  /\ IsOk(last.result)
  /\ last.result.val[1] \in Values
  /\ \E k \in Keys : Rows(rtx[last.tx].store)[k] = None

\* C3. Read of a missing table: a query with a read-handle parameter, run on
\* a read transaction in whose snapshot the table does not exist, returns an
\* error without running the body and changes nothing, in particular does not
\* create the table; the error is TableDoesNotExist (converted) unless the
\* storage itself failed.
ReadOfMissingTable ==
  [][(RunStep /\ HasTable(last'.args) /\ ~Exists(rtx[last'.tx].store))
       => /\ IsErr(last'.result)
          /\ ~BodyRan(last')
          /\ rtx' = rtx /\ committed' = committed /\ wtx' = wtx
          /\ last'.fault = 0 => last'.result = Err(From(TableDoesNotExist))
    ]_vars

\* A query on the handle of a table nobody created got TableDoesNotExist.
ReadOfMissingTableWitness ==
  /\ last.op = "run"
  /\ last.args = <<NAMES>>
  /\ last.result = Err(From(TableDoesNotExist))
  /\ ~Exists(rtx[last.tx].store)
  /\ ~Exists(committed)

\* The first table parameter of a call is resolved unless a storage fault
\* hits it or an earlier parameter.
FirstTableIdx(args) ==
  CHOOSE i \in 1..Len(args) :
    args[i] \in Tables /\ \A j \in 1..(i - 1) : args[j] \notin Tables

\* C4. Write of a missing table: a statement with a write-handle parameter,
\* executed while the table does not exist, resolves the handle (storage
\* faults apart) and the table then exists in the write transaction; a
\* successful commit publishes it, and a read handle then resolves. A table
\* comes into existence in a write transaction only by a successful
\* resolution of its write handle, in the published store only by the commit
\* of such a transaction, and in a read transaction never.
WriteOfMissingTable ==
  [][/\ (ExecuteStep /\ HasTable(last'.args) /\ ~Exists(wtx.store)
           /\ last'.fault = 0)
          => /\ ResolvedAt(last', FirstTableIdx(last'.args) - 1)
             /\ Exists(wtx'.store)
     /\ CommitOkStep => Exists(committed') = Exists(wtx.store)
     /\ (RunStep /\ Exists(rtx[last'.tx].store) /\ last'.fault = 0)
          => \A i \in 1..Len(last'.args) : ResolvedAt(last', i - 1)
     /\ (wtx.open /\ wtx'.open /\ ~Exists(wtx.store) /\ Exists(wtx'.store))
          => /\ ExecuteStep
             /\ \E i \in 1..Len(last'.args) :
                  last'.args[i] = NAMES /\ ResolvedAt(last', i - 1)
     /\ (~wtx.open /\ wtx'.open) => wtx'.store = committed
     /\ (~Exists(committed) /\ Exists(committed'))
          => CommitOkStep /\ Exists(wtx.store)
     /\ \A r \in Readers :
          /\ (rtx[r].open /\ rtx'[r].open)
               => Exists(rtx'[r].store) = Exists(rtx[r].store)
          /\ BeginReadStep(r) => Exists(rtx'[r].store) = Exists(committed)
    ]_vars

\* A statement has created the table in its transaction, not yet committed.
WriteOfMissingTableWitness ==
  /\ last.op = "execute"
  /\ HasTable(last.args)
  /\ IsOk(last.result)
  /\ Exists(wtx.store)
  /\ ~Exists(committed)

\* C5. Isolation: while a write transaction is open the published store does
\* not change; an open read transaction's snapshot never changes; a read
\* transaction begun while a write transaction is open starts from the
\* published store, not from the pending one; and what a query returns is
\* read from its transaction's snapshot.
Isolation ==
  [][/\ (wtx.open /\ ~CommitOkStep) => committed' = committed
     /\ \A r \in Readers :
          /\ (rtx[r].open /\ rtx'[r].open) => rtx'[r].store = rtx[r].store
          /\ BeginReadStep(r) => rtx'[r].store = committed
     /\ (RunStep /\ BodyRan(last') /\ last'.body.get # NoGet
           /\ IsOk(last'.result))
          => last'.result.val[1] = Rows(rtx[last'.tx].store)[last'.body.get]
     /\ (RunStep /\ wtx.open) => wtx' = wtx
    ]_vars

\* A query found a key absent that the open write transaction has written.
IsolationWitness ==
  /\ last.op = "run"
  /\ last.body.get # NoGet
  /\ last.result = Ok(<<None>>)
  /\ wtx.open
  /\ Rows(wtx.store)[last.body.get] \in Values

\* The storage error the failing resolution of parameter idx raises in c.
ExpectedError(c, idx) ==
  IF c.fault = idx + 1 THEN StorageError
  ELSE IF c.op = "run" THEN TableDoesNotExist
  ELSE TableAlreadyOpen

\* The previous values the inserts of muts find, starting from rows.
ExpectedOlds(muts, rows) ==
  [i \in 1..Len(muts) |->
     IF \E j \in 1..(i - 1) : muts[j].key = muts[i].key
     THEN muts[CHOOSE j \in 1..(i - 1) :
                 /\ muts[j].key = muts[i].key
                 /\ \A l \in (j + 1)..(i - 1) : muts[l].key # muts[i].key].value
     ELSE rows[muts[i].key]]

\* What the body of c returns when it runs on a table with these rows.
ExpectedResult(c, rows) ==
  IF c.body.ret = "err" THEN Err(BodyError)
  ELSE IF ~UsesTable(c.body) THEN Ok(<<>>)
  ELSE IF c.op = "run" THEN Ok(<<rows[c.body.get]>>)
  ELSE Ok(ExpectedOlds(c.body.muts, rows))

\* C6. Error propagation: a run or execute resolves each parameter at most
\* once and calls the body at most once; when a resolution fails the call
\* ends there and returns that resolution's storage error, converted; when
\* none fails the body runs last and its result, success or error, is
\* returned as it is.
ErrorPropagation ==
  [][(last = Idle /\ last'.op \in {"run", "execute"})
       => /\ \A i, j \in 1..Len(last'.log) :
               (/\ last'.log[i].step = last'.log[j].step
                /\ last'.log[i].idx = last'.log[j].idx) => i = j
          /\ \A idx \in 0..1 :
               FailedAt(last', idx)
                 => /\ Len(last'.log) = idx + 1
                    /\ last'.result = Err(From(ExpectedError(last', idx)))
          /\ (~FailedAt(last', 0) /\ ~FailedAt(last', 1))
               => /\ last'.log[Len(last'.log)] = Called
                  /\ \A i \in 1..Len(last'.args) : ResolvedAt(last', i - 1)
                  /\ last'.result =
                       ExpectedResult(last',
                                      IF last'.op = "run"
                                      THEN Rows(rtx[last'.tx].store)
                                      ELSE Rows(wtx.store))
    ]_vars

\* A statement's second resolution failed and the caller got that error.
ErrorPropagationWitness ==
  /\ last.op = "execute"
  /\ Len(last.args) = 2
  /\ last.result = Err(From(TableAlreadyOpen))

\* C7. No implicit rollback: when a statement's body returns an error, the
\* rows it inserted before returning are in the write transaction's store and
\* every other row is as the earlier statements left it; the transaction
\* stays open, the published store and the read transactions are untouched;
\* nothing but execute changes the pending store, and a successful commit
\* publishes all of it.
NoImplicitRollback ==
  [][/\ (ExecuteStep /\ BodyRan(last') /\ last'.result = Err(BodyError))
          => /\ \A k \in Keys :
                  Rows(wtx'.store)[k] =
                    IF Touched(last'.body.muts, k)
                    THEN LastValue(last'.body.muts, k)
                    ELSE Rows(wtx.store)[k]
             /\ wtx'.open
             /\ committed' = committed
             /\ rtx' = rtx
     /\ (wtx.open /\ wtx'.open /\ ~ExecuteStep)
          => Rows(wtx'.store) = Rows(wtx.store)
     /\ CommitOkStep => Rows(committed') = Rows(wtx.store)
    ]_vars

\* A body failed after inserting, with an earlier statement's insert pending.
NoImplicitRollbackWitness ==
  /\ last.op = "execute"
  /\ last.result = Err(BodyError)
  /\ last.body.muts # <<>>
  /\ \E k \in Keys :
       /\ ~Touched(last.body.muts, k)
       /\ Rows(wtx.store)[k] # Rows(committed)[k]

\* The step just taken is DatabaseExt::execute.
DbExecuteStep == last = Idle /\ last'.op = "db_execute"
CommitEvent(c, ok) == \E i \in 1..Len(c.log) : c.log[i] = Event("commit", 0, ok)

ArityUniformity ==
  [][/\ (ExecuteStep /\ Len(last'.args) = 2 /\ last'.args[2] = Tx)
          => LET one == Statement_execute_1(last'.body, last'.args[1],
                                            wtx.store, last'.fault)
             IN last'.result = one.result /\ wtx'.store = one.store
     /\ (ExecuteStep /\ Len(last'.args) = 2 /\ last'.args[1] = Tx)
          => LET one == Statement_execute_1(last'.body, last'.args[2],
                                            wtx.store,
                                            IF last'.fault = 2 THEN 1 ELSE 0)
             IN last'.result = one.result /\ wtx'.store = one.store
     /\ (RunStep /\ Len(last'.args) = 2 /\ last'.args[2] = Tx)
          => LET one == Query_run_1(last'.body, last'.args[1],
                                    rtx[last'.tx].store, last'.fault)
             IN last'.result = one.result
                /\ rtx'[last'.tx].store = one.store
     /\ (RunStep /\ Len(last'.args) = 2 /\ last'.args[1] = Tx)
          => LET one == Query_run_1(last'.body, last'.args[2],
                                    rtx[last'.tx].store,
                                    IF last'.fault = 2 THEN 1 ELSE 0)
             IN last'.result = one.result
                /\ rtx'[last'.tx].store = one.store
    ]_vars

\* A two-parameter statement (transaction, handle) inserted over a row.
ArityUniformityWitness ==
  /\ last.op = "execute"
  /\ last.args = <<Tx, NAMES>>
  /\ IsOk(last.result)
  /\ last.body.muts # <<>>
  /\ last.result.val[1] \in Values

\* C10. Short-circuiting does not undo earlier resolutions: when the first
\* parameter of a two-parameter statement is the write handle of a table that
\* does not exist and the second resolution fails, execute returns the error
\* without running the body, and the table exists in the write transaction,
\* with no row changed; execute never ends the transaction and never
\* publishes; a table pending in an open transaction stays pending, and a
\* successful commit brings it into existence.
ShortCircuitKeepsCreation ==
  [][/\ (ExecuteStep /\ Len(last'.args) = 2 /\ last'.args[1] = NAMES
           /\ ~Exists(wtx.store) /\ FailedAt(last', 1))
          => /\ IsErr(last'.result)
             /\ ~BodyRan(last')
             /\ Exists(wtx'.store)
             /\ Rows(wtx'.store) = Rows(wtx.store)
     /\ ExecuteStep => (wtx'.open /\ committed' = committed /\ rtx' = rtx)
     /\ (wtx.open /\ wtx'.open /\ Exists(wtx.store)) => Exists(wtx'.store)
     /\ (CommitOkStep /\ Exists(wtx.store)) => Exists(committed')
    ]_vars

\* The second resolution failed and the table the first created is pending.
ShortCircuitKeepsCreationWitness ==
  /\ last.op = "execute"
  /\ last.log = <<FromTx(0, TRUE), FromTx(1, FALSE)>>
  /\ last.args[1] = NAMES
  /\ Exists(wtx.store)
  /\ ~Exists(committed)

====
